---- MODULE Spec2Model ----
(***************************************************************************)
(* Model of the pact-demos agent framework: BaseAgent (base_agent.py) and  *)
(* its subclasses CustomerCareAgent, VoiceAIAssistant and                  *)
(* MentalHealthSupportAgent.                                               *)
(*                                                                         *)
(* Strings are finite sequences of symbols.  A symbol stands for a run of  *)
(* characters (a word); `x in y` of Python is "x is a contiguous           *)
(* subsequence of y", and str.lower() maps every symbol to its lower-case  *)
(* form.  Numeric confidences are integers in hundredths (0.6 is 60).      *)
(* Timestamps (datetime.now()) are not recorded in the log entries.        *)
(*                                                                         *)
(* The packages pact_ax and pact_hx are imported by the sources but are    *)
(* not part of them; the definitions that stand for them are modelled      *)
(* from the specification.                                                 *)
(***************************************************************************)
EXTENDS Integers, Sequences, FiniteSets, TLC

VARIABLES kind, capabilities, boundaries, delegation_map,
          interaction_history, learning_log, last, threads

vars == <<kind, capabilities, boundaries, delegation_map,
          interaction_history, learning_log, last, threads>>

\* what no method of the agent, called by itself, changes; threads holds the
\* calls that are in flight when the agent is called from several threads
agentVars == <<kind, capabilities, delegation_map, threads>>

----------------------------------------------------------------------------
(* Bounds *)

MaxHistory == 2

MaxLearning == 1

MaxLen == 2

MaxQueryDepth == 1

\* learn_from_outcome calls in a run of outcomes (SpecLearn)
MaxLearnDepth == 2

\* threads calling the same agent (SpecThreads)
MaxThreads == 2

----------------------------------------------------------------------------
(* Strings *)

None == "None"

LowerSym(c) ==
    CASE c = "A" -> "a"
      [] c = "B" -> "b"
      [] c = "HOURS" -> "hours"
      [] c = "REFUND" -> "refund"
      [] c = "HURTING" -> "hurting"
      [] OTHER -> c

UpperSym(c) ==
    CASE c = "a" -> "A"
      [] c = "b" -> "B"
      [] c = "hours" -> "HOURS"
      [] c = "refund" -> "REFUND"
      [] c = "hurting" -> "HURTING"
      [] OTHER -> c

Lower(s) == [i \in DOMAIN s |-> LowerSym(s[i])]

Upper(s) == [i \in DOMAIN s |-> UpperSym(s[i])]

\* Python's `needle in hay` for strings
Contains(needle, hay) ==
    \E i \in 0..(Len(hay) - Len(needle)) :
        SubSeq(hay, i + 1, i + Len(needle)) = needle

RECURSIVE StringsUpTo(_, _)
StringsUpTo(alphabet, n) ==
    IF n = 0 THEN {<<>>}
    ELSE LET shorter == StringsUpTo(alphabet, n - 1)
         IN  shorter \cup {Append(s, c) : s \in shorter, c \in alphabet}

----------------------------------------------------------------------------
(* pact_ax.primitives.epistemic *)

ConfidenceLevel == {"UNKNOWN", "LOW", "MODERATE", "CONFIDENT", "CERTAIN"}

\* ConfidenceLevel.value, in hundredths
Value(level) ==
    CASE level = "UNKNOWN" -> 0
      [] level = "LOW" -> 30
      [] level = "MODERATE" -> 60
      [] level = "CONFIDENT" -> 80
      [] level = "CERTAIN" -> 100

MaxValue == Value("CERTAIN")

\* An optional reference is <<>> (None) or <<x>>
NoRef == <<>>

Ref(x) == <<x>>

\* EpistemicState(value, confidence, uncertainty_reason, boundary,
\* delegation_map, source); boundary is an index into self.boundaries, 0 for None
EpistemicState(value, confidence, uncertainty_reason, boundary, dmap, source) ==
    [value |-> value, confidence |-> confidence,
     uncertainty_reason |-> uncertainty_reason, boundary |-> boundary,
     delegation_map |-> dmap, source |-> source,
     suggested_delegate |-> None, raised |-> None]

\* UnknownResponse(reason, suggested_delegate, can_learn).to_epistemic_state()
UnknownResponse(reason, suggested_delegate) ==
    [value |-> None, confidence |-> "UNKNOWN",
     uncertainty_reason |-> reason, boundary |-> 0,
     delegation_map |-> NoRef, source |-> None,
     suggested_delegate |-> suggested_delegate, raised |-> None]

\* an exception leaving a method that returns an EpistemicState
Raise(exc) ==
    [value |-> None, confidence |-> "UNKNOWN",
     uncertainty_reason |-> None, boundary |-> 0,
     delegation_map |-> NoRef, source |-> None,
     suggested_delegate |-> None, raised |-> exc]

NoState == Raise(None)

\* DelegationMap: domain -> (delegate id, reason)
EmptyDelegationMap == [d \in {} |-> [delegate |-> None, reason |-> None]]

\* add_delegation keeping the entry a domain already has (first write wins)
add_delegation_keep_first(dmap, domain, delegate, reason) ==
    [d \in (DOMAIN dmap) \cup {domain} |->
        IF d \in DOMAIN dmap THEN dmap[d]
        ELSE [delegate |-> delegate, reason |-> reason]]

add_delegation(dmap, domain, delegate, reason) ==
    [d \in (DOMAIN dmap) \cup {domain} |->
        IF d = domain THEN [delegate |-> delegate, reason |-> reason]
        ELSE dmap[d]]

get_delegate(dmap, domain) ==
    IF domain \in DOMAIN dmap THEN dmap[domain].delegate ELSE None

\* EpistemicState.should_defer(domain, required_confidence)
should_defer(state, domain, required_confidence) ==
    Value(state.confidence) < required_confidence

\* EpistemicState.get_delegate(domain)
state_get_delegate(state, domain) ==
    IF state.delegation_map # NoRef
    THEN get_delegate(state.delegation_map[1], domain)
    ELSE state.suggested_delegate

\* KnowledgeBoundary(domain, proficiency, known_capabilities, known_limits)
KnowledgeBoundary(domain, proficiency, known_capabilities, known_limits) ==
    [domain |-> domain, proficiency |-> proficiency,
     known_capabilities |-> known_capabilities, known_limits |-> known_limits]

\* ExpressionOrchestrator.express(state, context, raw_query, delegate_to)
express(state, raw_query, delegate_to) ==
    [message |-> IF state.value = None THEN state.uncertainty_reason
                 ELSE state.value,
     confidence |-> Value(state.confidence),
     should_escalate |-> \/ state.value = None
                         \/ state.confidence = "UNKNOWN"
                         \/ state.source = "crisis_protocol",
     delegate_to |-> delegate_to,
     safety_override |-> state.source = "crisis_protocol"]

NoResponse ==
    [message |-> None, confidence |-> 0, should_escalate |-> FALSE,
     delegate_to |-> None, safety_override |-> FALSE]

\* pact_hx.expression.mental_health: registered crisis phrases
CrisisPhrases == {<<"hurting", "myself">>, <<"suicide">>}

\* TherapeuticSafety.check_for_crisis(content)[0]
check_for_crisis(content) ==
    \E p \in CrisisPhrases : Contains(p, Lower(content))

RequiresHumanPhrases == {<<"depression">>, <<"medication">>}

\* MentalHealthExpression().check_requires_human(content)
check_requires_human(content) ==
    \E p \in RequiresHumanPhrases : Contains(p, Lower(content))

----------------------------------------------------------------------------
(* base_agent.py: AgentCapability *)

AgentCapability(domain, topics, proficiency_level, confidence_range) ==
    [domain |-> domain, topics |-> topics,
     proficiency_level |-> proficiency_level,
     confidence_range |-> confidence_range]

\* AgentCapability.can_handle(topic):
\*   any(topic.lower() in t.lower() for t in self.topics)
can_handle(cap, topic) ==
    \E i \in DOMAIN cap.topics : Contains(Lower(topic), Lower(cap.topics[i]))

----------------------------------------------------------------------------
(* The agents' constructors *)

CareCapabilities ==
    << AgentCapability("general_inquiries",
          << <<"hours">>, <<"location">>, <<"contact">>,
             <<"general", "questions">> >>, "CONFIDENT", <<80, 95>>),
       AgentCapability("account_basics",
          << <<"login">>, <<"password", "reset">>, <<"account", "info">>,
             <<"profile">> >>, "CONFIDENT", <<70, 90>>),
       AgentCapability("billing_basic",
          << <<"check", "balance">>, <<"payment", "methods">>,
             <<"billing", "cycle">> >>, "MODERATE", <<50, 70>>) >>

CareDelegations ==
    add_delegation(
      add_delegation(
        add_delegation(EmptyDelegationMap,
          "billing_complex", "billing_specialist",
          "Complex billing issues require specialist"),
        "technical", "technical_support",
        "Technical issues need engineering expertise"),
      "refunds", "billing_specialist",
      "Refund processing requires specialist access")

\* CustomerCareAgent.knowledge_base, in insertion order
knowledge_base ==
    << [key |-> <<"hours">>, value |-> "kb_hours"],
       [key |-> <<"location">>, value |-> "kb_location"],
       [key |-> <<"contact">>, value |-> "kb_contact"],
       [key |-> <<"login">>, value |-> "kb_login"],
       [key |-> <<"password", "reset">>, value |-> "kb_password_reset"],
       [key |-> <<"account", "info">>, value |-> "kb_account_info"],
       [key |-> <<"balance">>, value |-> "kb_balance"] >>

MHCapabilities ==
    << AgentCapability("general_wellness",
          << <<"stress">>, <<"sleep">>, <<"exercise">>, <<"routine">>,
             <<"self-care">> >>, "MODERATE", <<50, 70>>),
       AgentCapability("coping_techniques",
          << <<"breathing">>, <<"grounding">>, <<"journaling">>,
             <<"mindfulness">> >>, "CONFIDENT", <<70, 85>>),
       AgentCapability("session_continuity",
          << <<"previous", "session">>, <<"progress">>, <<"goals">> >>,
          "MODERATE", <<60, 80>>) >>

MHDelegations ==
    add_delegation(
      add_delegation(
        add_delegation(
          add_delegation(EmptyDelegationMap,
            "diagnosis", "licensed_therapist",
            "Diagnosis requires licensed clinical expertise"),
          "medication", "psychiatrist",
          "Medication questions need psychiatric expertise"),
        "crisis", "crisis_hotline",
        "Crisis situations need immediate professional support"),
      "severe_symptoms", "licensed_therapist",
      "Severe symptoms require clinical assessment")

VoiceCapabilities ==
    << AgentCapability("general_knowledge",
          << <<"facts">>, <<"definitions">>, <<"explanations">>,
             <<"history">> >>, "CONFIDENT", <<70, 90>>),
       AgentCapability("current_events",
          << <<"news">>, <<"today">>, <<"recent">>, <<"latest">> >>,
          "LOW", <<20, 50>>),
       AgentCapability("personal_assistant",
          << <<"reminder">>, <<"schedule">>, <<"weather">>, <<"time">> >>,
          "CONFIDENT", <<80, 95>>) >>

VoiceDelegations ==
    add_delegation(
      add_delegation(EmptyDelegationMap,
        "current_events", "web_search", "Need real-time information"),
      "specialized_knowledge", "expert_system",
      "Specialized domain needs expert")

\* set(capability.topics)
SetOf(seq) == {seq[i] : i \in DOMAIN seq}

\* _build_boundaries with the topics filed as limits
build_boundaries_topics_as_limits(caps) ==
    [i \in DOMAIN caps |->
        KnowledgeBoundary(caps[i].domain, caps[i].proficiency_level,
                          {}, SetOf(caps[i].topics))]

\* BaseAgent._build_boundaries
build_boundaries(caps) ==
    [i \in DOMAIN caps |->
        KnowledgeBoundary(caps[i].domain, caps[i].proficiency_level,
                          SetOf(caps[i].topics), {})]

----------------------------------------------------------------------------
(* Queries: Query(content, domain, required_confidence) *)

Query(content, domain, required_confidence) ==
    [content |-> content, domain |-> domain,
     required_confidence |-> required_confidence]

----------------------------------------------------------------------------
(* Confidence assessment *)

\* _assess_confidence granting the proficiency to a content among the topics only
base_assess_confidence_by_topic(query, capability) ==
    IF can_handle(capability, query.content)
    THEN capability.proficiency_level
    ELSE "UNKNOWN"

\* BaseAgent._assess_confidence
base_assess_confidence(query, capability) == capability.proficiency_level

complexity_indicators ==
    << <<"complex">>, <<"detailed">>, <<"specific">>, <<"technical">>,
       <<"refund">>, <<"cancel">> >>

\* _assess_confidence looking at the complexity indicators before the keys
care_assess_confidence_complexity_first(query, capability) ==
    LET query_lower == Lower(query.content) IN
    IF can_handle(capability, query.content)
       /\ \E j \in DOMAIN complexity_indicators :
             Contains(complexity_indicators[j], query_lower)
    THEN "LOW"
    ELSE IF \E k \in DOMAIN knowledge_base :
               Contains(knowledge_base[k].key, query_lower)
    THEN "CERTAIN"
    ELSE IF can_handle(capability, query.content) THEN "MODERATE"
    ELSE "UNKNOWN"

\* CustomerCareAgent._assess_confidence
care_assess_confidence(query, capability) ==
    LET query_lower == Lower(query.content) IN
    IF \E k \in DOMAIN knowledge_base :
          Contains(knowledge_base[k].key, query_lower)
    THEN "CERTAIN"
    ELSE IF can_handle(capability, query.content)
    THEN IF \E j \in DOMAIN complexity_indicators :
               Contains(complexity_indicators[j], query_lower)
         THEN "LOW"
         ELSE "MODERATE"
    ELSE "UNKNOWN"

\* dispatch of self._assess_confidence on the agent's class
assess_confidence(query, capability) ==
    IF kind = "care" THEN care_assess_confidence(query, capability)
    ELSE base_assess_confidence(query, capability)

----------------------------------------------------------------------------
(* BaseAgent.assess_capability *)

\* the capability scan without its break: the last match wins
RECURSIVE find_capability_no_break(_, _, _)
find_capability_no_break(caps, query, i) ==
    IF i > Len(caps) THEN 0
    ELSE LET later == find_capability_no_break(caps, query, i + 1) IN
         IF later # 0 THEN later
         ELSE IF caps[i].domain = query.domain
                 \/ can_handle(caps[i], query.content)
         THEN i
         ELSE 0

\* the capability scan: index of the first capability that matches, 0 if none
RECURSIVE find_capability(_, _, _)
find_capability(caps, query, i) ==
    IF i > Len(caps) THEN 0
    ELSE IF caps[i].domain = query.domain \/ can_handle(caps[i], query.content)
    THEN i
    ELSE find_capability(caps, query, i + 1)

\* _suggest_delegate looking the delegate up under the content, not the domain
suggest_delegate_by_content(query) ==
    get_delegate(delegation_map, query.content)

\* BaseAgent._suggest_delegate
suggest_delegate(query) == get_delegate(delegation_map, query.domain)

\* assess_capability deferring at equality as well (<= for <)
assess_capability_le(query) ==
    LET relevant == find_capability(capabilities, query, 1) IN
    IF relevant = 0
    THEN UnknownResponse("outside my expertise areas", suggest_delegate(query))
    ELSE LET confidence == assess_confidence(query, capabilities[relevant])
             defer == Value(confidence) <= query.required_confidence
         IN  IF Len(boundaries) = 0 THEN Raise("IndexError")
             ELSE IF defer
             THEN EpistemicState(None, confidence, "below required threshold",
                                 1, Ref(delegation_map), None)
             ELSE EpistemicState("can_handle", confidence, None, 1, NoRef, None)

\* assess_capability without its deferral branch: a matched query can be handled
assess_capability_no_deferral(query) ==
    LET relevant == find_capability(capabilities, query, 1) IN
    IF relevant = 0
    THEN UnknownResponse("outside my expertise areas", suggest_delegate(query))
    ELSE LET confidence == assess_confidence(query, capabilities[relevant])
         IN  IF Len(boundaries) = 0 THEN Raise("IndexError")
             ELSE EpistemicState("can_handle", confidence, None, 1, NoRef, None)

\* assess_capability heeding what was learned: a content among the known
\* limits of the boundary of the query's domain is deferred
assess_capability_heeding_limits(query) ==
    LET relevant == find_capability(capabilities, query, 1) IN
    IF relevant = 0
    THEN UnknownResponse("outside my expertise areas", suggest_delegate(query))
    ELSE LET confidence == assess_confidence(query, capabilities[relevant])
             defer == \/ Value(confidence) < query.required_confidence
                      \/ \E i \in DOMAIN boundaries :
                            /\ boundaries[i].domain = query.domain
                            /\ query.content \in boundaries[i].known_limits
         IN  IF Len(boundaries) = 0 THEN Raise("IndexError")
             ELSE IF defer
             THEN EpistemicState(None, confidence, "below required threshold",
                                 1, Ref(delegation_map), None)
             ELSE EpistemicState("can_handle", confidence, None, 1, NoRef, None)

assess_capability(query) ==
    LET relevant == find_capability(capabilities, query, 1) IN
    IF relevant = 0
    THEN UnknownResponse("outside my expertise areas", suggest_delegate(query))
    ELSE LET confidence == assess_confidence(query, capabilities[relevant])
             defer == Value(confidence) < query.required_confidence
         IN  IF Len(boundaries) = 0 THEN Raise("IndexError")
             ELSE IF defer
             THEN EpistemicState(None, confidence, "below required threshold",
                                 1, Ref(delegation_map), None)
             ELSE EpistemicState("can_handle", confidence, None, 1, NoRef, None)

----------------------------------------------------------------------------
(* _generate_answer *)

AnyIn(words, text) == \E w \in words : Contains(<<w>>, text)

\* f"I can help with {capability.domain} questions. ..."
HelpMessage(domain) ==
    CASE domain = "general_inquiries" -> "I can help with general_inquiries"
      [] domain = "account_basics" -> "I can help with account_basics"
      [] domain = "billing_basic" -> "I can help with billing_basic"
      [] OTHER -> "I can help"

\* first knowledge-base entry whose key is in the text, 0 if none
RECURSIVE kb_lookup(_, _)
kb_lookup(text, i) ==
    IF i > Len(knowledge_base) THEN 0
    ELSE IF Contains(knowledge_base[i].key, text) THEN i
    ELSE kb_lookup(text, i + 1)

\* first capability that can_handle the content, 0 if none
RECURSIVE first_can_handle(_, _, _)
first_can_handle(caps, content, i) ==
    IF i > Len(caps) THEN 0
    ELSE IF can_handle(caps[i], content) THEN i
    ELSE first_can_handle(caps, content, i + 1)

\* CustomerCareAgent._generate_answer
care_generate_answer(query) ==
    LET query_lower == Lower(query.content)
        k == kb_lookup(query_lower, 1)
        c == first_can_handle(capabilities, query.content, 1)
    IN  IF k # 0
        THEN IF Len(boundaries) = 0 THEN Raise("IndexError")
             ELSE EpistemicState(knowledge_base[k].value, "CERTAIN", None, 1,
                                 NoRef, "knowledge_base")
        ELSE IF c # 0
        THEN IF AnyIn({"billing"}, query_lower) /\ AnyIn({"refund"}, query_lower)
             THEN EpistemicState("connect you with our billing specialist",
                     "LOW", "Refund processing requires specialist access",
                     0, Ref(delegation_map), None)
             ELSE IF AnyIn({"technical", "error"}, query_lower)
             THEN EpistemicState("This appears to be a technical issue",
                     "LOW", "Technical troubleshooting needs engineering team",
                     0, Ref(delegation_map), None)
             ELSE EpistemicState(HelpMessage(capabilities[c].domain),
                     "MODERATE", "Need more details to provide specific answer",
                     0, NoRef, None)
        ELSE UnknownResponse("This topic is outside my area of expertise",
                             "specialist_team")

\* VoiceAIAssistant._generate_answer
voice_generate_answer(query) ==
    LET query_lower == Lower(query.content) IN
    IF AnyIn({"today", "latest", "recent", "news", "now", "current"}, query_lower)
    THEN EpistemicState("I don't have access to real-time information",
            "UNKNOWN", "No real-time data access", 0, Ref(delegation_map), None)
    ELSE IF AnyIn({"capital"}, query_lower)
            /\ AnyIn({"france", "japan", "usa"}, query_lower)
    THEN EpistemicState(
            IF AnyIn({"france"}, query_lower) THEN "The capital of France is Paris"
            ELSE IF AnyIn({"japan"}, query_lower)
                 THEN "The capital of Japan is Tokyo"
                 ELSE "The capital of Usa is Washington DC",
            "CERTAIN", None, 0, NoRef, "knowledge_base")
    ELSE IF (Contains(<<"what", "is">>, query_lower)
                \/ AnyIn({"define"}, query_lower))
            /\ AnyIn({"humility", "epistemic"}, query_lower)
    THEN EpistemicState(
            IF AnyIn({"humility"}, query_lower) THEN "Humility means"
            ELSE "Epistemic means",
            "CONFIDENT", None, 0, NoRef, "knowledge_base")
    ELSE IF AnyIn({"weather"}, query_lower)
    THEN EpistemicState("I can check the weather", "MODERATE",
            "Would need to access weather API", 0, NoRef, "capability_check")
    ELSE UnknownResponse("I don't have that information",
            IF ~AnyIn({"search"}, query_lower) THEN "search" ELSE None)

\* MentalHealthSupportAgent._generate_answer
mh_generate_answer(query) ==
    LET query_lower == Lower(query.content) IN
    IF check_for_crisis(query.content)
    THEN EpistemicState("crisis_response", "CERTAIN", None, 0, NoRef,
                        "crisis_protocol")
    ELSE IF check_requires_human(query.content)
    THEN EpistemicState("This needs discussion with your therapist",
            "UNKNOWN", "Topic requires licensed clinical expertise",
            0, Ref(delegation_map), None)
    ELSE IF AnyIn({"breathing", "grounding", "mindfulness"}, query_lower)
    THEN EpistemicState(
            IF AnyIn({"breathing"}, query_lower) THEN "box breathing"
            ELSE IF AnyIn({"grounding"}, query_lower) THEN "5-4-3-2-1 technique"
            ELSE "mindfulness practice",
            "CONFIDENT", None, 0, NoRef, "evidence_based_techniques")
    ELSE IF AnyIn({"previous", "progress"}, query_lower)
            \/ Contains(<<"last", "time">>, query_lower)
            \/ Contains(<<"we", "discussed">>, query_lower)
    THEN EpistemicState(
            IF AnyIn({"stress"}, query_lower) THEN "session: stress_techniques"
            ELSE IF AnyIn({"goal"}, query_lower) THEN "session: goals"
            ELSE IF AnyIn({"progress"}, query_lower) THEN "session: progress"
            ELSE "session: previous conversations",
            "MODERATE", None, 0, NoRef, "session_history")
    ELSE IF AnyIn({"stress", "sleep", "routine"}, query_lower)
    THEN EpistemicState(
            IF AnyIn({"sleep"}, query_lower) THEN "sleep routine guidance"
            ELSE IF AnyIn({"stress"}, query_lower) THEN "stress guidance"
            ELSE "wellness guidance",
            "MODERATE",
            "General guidance - your therapist can personalize this for you",
            0, NoRef, None)
    ELSE UnknownResponse("This is outside my scope as a support tool",
                         "licensed_therapist")

\* BaseAgent._generate_answer, dispatched on the agent's class
generate_answer(query) ==
    CASE kind = "care" -> care_generate_answer(query)
      [] kind = "voice" -> voice_generate_answer(query)
      [] kind = "mh" -> mh_generate_answer(query)
      [] OTHER -> Raise("NotImplementedError")

----------------------------------------------------------------------------
(* BaseAgent.handle *)

\* the entry BaseAgent._log_interaction appends
log_entry(query, state, response, deferred) ==
    [query |-> query.content, domain |-> query.domain,
     confidence |-> Value(state.confidence), deferred |-> deferred,
     response_message |-> response.message,
     should_escalate |-> response.should_escalate]

\* _log_interaction putting the new entry in front
log_interaction_front(history, query, state, response, deferred) ==
    <<log_entry(query, state, response, deferred)>> \o history

log_interaction(history, query, state, response, deferred) ==
    Append(history, log_entry(query, state, response, deferred))

\* the calls _generate_answer makes before it returns
answer_steps ==
    IF kind = "mh" THEN <<"_generate_answer", "check_for_crisis">>
    ELSE <<"_generate_answer">>

\* One call of handle: the state it logs, the response it returns, the
\* exception it raises if any, whether it took the deferral branch, the
\* calls it made in order, and the interaction history it leaves.
handle(query) ==
    LET capability_assessment == assess_capability(query) IN
    IF capability_assessment.raised # None
    THEN [assessment |-> capability_assessment, state |-> NoState,
          response |-> NoResponse, raised |-> capability_assessment.raised,
          deferred |-> FALSE, steps |-> <<"assess_capability">>,
          history |-> interaction_history]
    ELSE IF should_defer(capability_assessment, query.domain,
                         query.required_confidence)
    THEN LET delegate_to ==
                 state_get_delegate(capability_assessment, query.domain)
             response ==
                 express(capability_assessment, query.content, delegate_to)
         IN  [assessment |-> capability_assessment,
              state |-> capability_assessment,
              response |-> response, raised |-> None, deferred |-> TRUE,
              steps |-> <<"assess_capability", "should_defer", "get_delegate",
                          "express", "_log_interaction">>,
              history |-> log_interaction(interaction_history, query,
                              capability_assessment, response, TRUE)]
    ELSE LET answer_state == generate_answer(query) IN
         IF answer_state.raised # None
         THEN [assessment |-> capability_assessment, state |-> NoState,
               response |-> NoResponse, raised |-> answer_state.raised,
               deferred |-> FALSE,
               steps |-> <<"assess_capability", "should_defer">>
                            \o answer_steps,
               history |-> interaction_history]
         ELSE LET response == express(answer_state, query.content, None) IN
              [assessment |-> capability_assessment, state |-> answer_state,
               response |-> response, raised |-> None, deferred |-> FALSE,
               steps |-> <<"assess_capability", "should_defer">>
                            \o answer_steps
                            \o <<"express", "_log_interaction">>,
               history |-> log_interaction(interaction_history, query,
                               answer_state, response, FALSE)]

----------------------------------------------------------------------------
(* BaseAgent.learn_from_outcome *)

\* KnowledgeBoundary.update_boundary(learned_limit=...)
update_limit(boundary, learned_limit) ==
    [boundary EXCEPT !.known_limits = @ \cup {learned_limit}]

\* KnowledgeBoundary.update_boundary(learned_capability=...)
update_capability(boundary, learned_capability) ==
    [boundary EXCEPT !.known_capabilities = @ \cup {learned_capability}]

learning_entry(query, predicted_state, actual_outcome, feedback) ==
    [query |-> query.content,
     predicted_confidence |-> Value(predicted_state.confidence),
     actual_outcome |-> actual_outcome, feedback |-> feedback]

\* as learn_from_outcome, with the two thresholds met at equality
learn_boundaries_at_threshold(bs, query, predicted_state, actual_outcome) ==
    LET limits ==
            IF ~actual_outcome /\ Value(predicted_state.confidence) >= 60
            THEN [i \in DOMAIN bs |->
                    IF bs[i].domain = query.domain
                    THEN update_limit(bs[i], query.content) ELSE bs[i]]
            ELSE bs
    IN  IF actual_outcome /\ Value(predicted_state.confidence) <= 50
        THEN [i \in DOMAIN limits |->
                IF limits[i].domain = query.domain
                THEN update_capability(limits[i], query.content)
                ELSE limits[i]]
        ELSE limits

\* as learn_from_outcome, recording a learned limit as a boundary of its own
learn_boundaries_new_boundary(bs, query, predicted_state, actual_outcome) ==
    LET limits ==
            IF ~actual_outcome /\ Value(predicted_state.confidence) > 60
            THEN Append(bs, KnowledgeBoundary(query.domain,
                                              predicted_state.confidence,
                                              {}, {query.content}))
            ELSE bs
    IN  IF actual_outcome /\ Value(predicted_state.confidence) < 50
        THEN [i \in DOMAIN limits |->
                IF limits[i].domain = query.domain
                THEN update_capability(limits[i], query.content)
                ELSE limits[i]]
        ELSE limits

\* as learn_from_outcome, with the learned content replacing the set it joins
learn_boundaries_replace(bs, query, predicted_state, actual_outcome) ==
    LET limits ==
            IF ~actual_outcome /\ Value(predicted_state.confidence) > 60
            THEN [i \in DOMAIN bs |->
                    IF bs[i].domain = query.domain
                    THEN [bs[i] EXCEPT !.known_limits = {query.content}]
                    ELSE bs[i]]
            ELSE bs
    IN  IF actual_outcome /\ Value(predicted_state.confidence) < 50
        THEN [i \in DOMAIN limits |->
                IF limits[i].domain = query.domain
                THEN [limits[i] EXCEPT !.known_capabilities = {query.content}]
                ELSE limits[i]]
        ELSE limits

learn_boundaries(bs, query, predicted_state, actual_outcome) ==
    LET limits ==
            IF ~actual_outcome /\ Value(predicted_state.confidence) > 60
            THEN [i \in DOMAIN bs |->
                    IF bs[i].domain = query.domain
                    THEN update_limit(bs[i], query.content) ELSE bs[i]]
            ELSE bs
    IN  IF actual_outcome /\ Value(predicted_state.confidence) < 50
        THEN [i \in DOMAIN limits |->
                IF limits[i].domain = query.domain
                THEN update_capability(limits[i], query.content)
                ELSE limits[i]]
        ELSE limits

----------------------------------------------------------------------------
(* BaseAgent.get_stats *)

RECURSIVE SumConfidence(_, _)
SumConfidence(history, i) ==
    IF i > Len(history) THEN 0
    ELSE history[i].confidence + SumConfidence(history, i + 1)

\* avg_confidence and deferred_rate are kept as exact fractions <<num, den>>
get_stats ==
    IF Len(interaction_history) = 0
    THEN [message |-> "No interactions yet"]
    ELSE LET total == Len(interaction_history)
             deferred == Cardinality({i \in 1..total :
                                        interaction_history[i].deferred})
             escalated == Cardinality({i \in 1..total :
                                        interaction_history[i].should_escalate})
         IN  [total_interactions |-> total, deferred_count |-> deferred,
              deferred_rate |-> <<deferred, total>>,
              escalated_count |-> escalated,
              avg_confidence |-> <<SumConfidence(interaction_history, 1), total>>,
              learning_events |-> Len(learning_log)]

----------------------------------------------------------------------------
(* Inputs *)

\* capability lists a caller passes to BaseAgent(...) directly
BaseCapabilityChoices ==
    { <<>>,
      << AgentCapability("billing", << <<"refund", "policy">> >>,
                         "MODERATE", <<50, 70>>) >>,
      << AgentCapability("billing", << <<"refund", "policy">> >>,
                         "LOW", <<20, 50>>),
         AgentCapability("support", << <<"refund">> >>,
                         "CONFIDENT", <<70, 90>>) >> }

Kinds == {"base", "care", "voice", "mh"}

CapabilityChoices(k) ==
    CASE k = "care" -> {CareCapabilities}
      [] k = "voice" -> {VoiceCapabilities}
      [] k = "mh" -> {MHCapabilities}
      [] OTHER -> BaseCapabilityChoices

InitialDelegations(k) ==
    CASE k = "care" -> CareDelegations
      [] k = "voice" -> VoiceDelegations
      [] k = "mh" -> MHDelegations
      [] OTHER -> EmptyDelegationMap

\* Queries of the agent's lifetime (Spec)
QueryContents(k) ==
    CASE k = "care" -> {<<"check">>, <<"mission">>}
      [] k = "voice" -> {<<"weather">>, <<"zzz">>}
      [] k = "mh" -> {<<"hurting", "myself">>, <<"stress">>}
      [] OTHER -> {<<"refund">>, <<"zzz">>}

QueryDomains(k) ==
    CASE k = "care" -> {"billing_basic", "technical"}
      [] k = "voice" -> {"current_events", "other"}
      [] k = "mh" -> {"general_wellness", "crisis"}
      [] OTHER -> {"support", "other"}

RequiredConfidences == {60}

Queries(k) ==
    {Query(c, d, r) : c \in QueryContents(k), d \in QueryDomains(k),
                      r \in RequiredConfidences}

\* Outcomes reported to learn_from_outcome (Spec)
LearnContents(k) ==
    CASE k = "care" -> {<<"check">>}
      [] k = "voice" -> {<<"weather">>}
      [] k = "mh" -> {<<"stress">>}
      [] OTHER -> {<<"refund">>}

LearnQueries(k) ==
    {Query(c, d, 60) : c \in LearnContents(k), d \in QueryDomains(k)}

LearnLevels == {"LOW", "MODERATE", "CONFIDENT"}

\* Queries put to a freshly constructed agent (SpecQuery)
WideContents(k) ==
    CASE k = "care" ->
            {<<"hours">>, <<"what", "HOURS">>, <<"check">>, <<"mission">>}
      [] k = "voice" ->
            {<<"weather">>, <<"news">>, <<"capital", "france">>, <<"zzz">>}
      [] k = "mh" ->
            {<<"hurting", "myself">>, <<"HURTING", "myself", "breathing">>,
             <<"breathing">>, <<"stress">>}
      [] OTHER -> {<<"refund">>, <<"refund", "policy">>, <<"zzz">>}

WideDomains(k) ==
    CASE k = "care" -> {"billing_basic", "technical", "unknown"}
      [] k = "voice" -> {"current_events", "personal_assistant", "other"}
      [] k = "mh" -> {"coping_techniques", "general_wellness", "crisis"}
      [] OTHER -> {"billing", "support", "other"}

WideConfidences == {0, 60, 90}

WideQueries(k) ==
    {Query(c, d, r) : c \in WideContents(k), d \in WideDomains(k),
                      r \in WideConfidences}

Feedbacks == {None}

NoQuery == Query(<<>>, None, 0)

NoCapability == AgentCapability(None, <<>>, "UNKNOWN", <<0, 0>>)

NoLast ==
    [op |-> "init", query |-> NoQuery, capability |-> NoCapability,
     caps |-> <<>>, assessment |-> NoState, state |-> NoState,
     response |-> NoResponse, raised |-> None, deferred |-> FALSE,
     steps |-> <<>>, result |-> FALSE, level |-> "UNKNOWN", index |-> 0,
     outcome |-> FALSE, stats |-> [message |-> None], delegate |-> None,
     pool |-> <<>>, assessments |-> <<>>, routed |-> None,
     asked |-> NoQuery, before |-> NoState]

Threads == 1..MaxThreads

\* a thread that has not called the agent
NoCall ==
    [op |-> "idle", pc |-> "idle", query |-> NoQuery, state |-> NoState,
     response |-> NoResponse, deferred |-> FALSE, outcome |-> FALSE, i |-> 0]

NoThreads == [t \in Threads |-> NoCall]

----------------------------------------------------------------------------
(* The agent: construction and its public methods *)

Init ==
    /\ kind \in Kinds
    /\ capabilities \in CapabilityChoices(kind)
    /\ boundaries = build_boundaries(capabilities)
    /\ delegation_map = InitialDelegations(kind)
    /\ interaction_history = <<>>
    /\ learning_log = <<>>
    /\ last = NoLast
    /\ threads = NoThreads

HandleOn(queries, limit) ==
    /\ Len(interaction_history) < limit
    /\ \E query \in queries :
         LET h == handle(query) IN
         /\ interaction_history' = h.history
         /\ last' = [NoLast EXCEPT !.op = "handle", !.query = query,
                        !.assessment = h.assessment, !.state = h.state,
                        !.response = h.response, !.raised = h.raised,
                        !.deferred = h.deferred, !.steps = h.steps]
    /\ UNCHANGED <<agentVars, boundaries, learning_log>>

\* as assess_capability, with the assessment logged as an interaction
AssessCapabilityLogged(queries) ==
    /\ \E query \in queries :
         LET a == assess_capability(query) IN
         /\ last' = [NoLast EXCEPT !.op = "assess_capability", !.query = query,
                        !.state = a, !.raised = a.raised,
                        !.index = find_capability(capabilities, query, 1)]
         /\ interaction_history' =
                log_interaction(interaction_history, query, a, NoResponse,
                                a.value = None)
    /\ UNCHANGED <<agentVars, boundaries, learning_log>>

AssessCapabilityOn(queries) ==
    /\ \E query \in queries :
         LET a == assess_capability(query) IN
         last' = [NoLast EXCEPT !.op = "assess_capability", !.query = query,
                     !.state = a, !.raised = a.raised,
                     !.index = find_capability(capabilities, query, 1)]
    /\ UNCHANGED <<agentVars, boundaries, interaction_history, learning_log>>

Handle == HandleOn(Queries(kind), MaxHistory)

AssessCapability == AssessCapabilityOn(Queries(kind))

\* learn_from_outcome; prev is what the caller keeps of earlier calls
LearnFromOutcomeFrom(prev, queries, levels, limit) ==
    /\ Len(learning_log) < limit
    /\ \E query \in queries, level \in levels,
          actual_outcome \in BOOLEAN, feedback \in Feedbacks :
         LET predicted_state ==
                 EpistemicState("answer", level, None, 0, NoRef, None)
         IN  /\ learning_log' =
                   Append(learning_log,
                          learning_entry(query, predicted_state,
                                         actual_outcome, feedback))
             /\ boundaries' = learn_boundaries(boundaries, query,
                                               predicted_state, actual_outcome)
             /\ last' = [prev EXCEPT !.op = "learn_from_outcome",
                            !.query = query, !.state = predicted_state,
                            !.outcome = actual_outcome]
    /\ UNCHANGED <<agentVars, interaction_history>>

LearnFromOutcomeOn(queries, levels, limit) ==
    LearnFromOutcomeFrom(NoLast, queries, levels, limit)

LearnFromOutcome ==
    LearnFromOutcomeOn(LearnQueries(kind), LearnLevels, MaxLearning)

GetStats ==
    /\ last' = [NoLast EXCEPT !.op = "get_stats", !.stats = get_stats]
    /\ UNCHANGED <<agentVars, boundaries, interaction_history, learning_log>>

Next == Handle \/ AssessCapability \/ LearnFromOutcome \/ GetStats

Spec == Init /\ [][Next]_vars

----------------------------------------------------------------------------
(* Single queries put to a freshly constructed agent *)

HandleQuery == HandleOn(WideQueries(kind), MaxQueryDepth)

AssessQuery == AssessCapabilityOn(WideQueries(kind))

NextQuery == HandleQuery \/ AssessQuery

SpecQuery == Init /\ [][NextQuery]_vars

----------------------------------------------------------------------------
(* Outcomes reported to a freshly constructed agent, at every confidence *)

LearnedQueries(k) ==
    {Query(c, d, 60) : c \in QueryContents(k), d \in QueryDomains(k)}

LearnOutcome ==
    LearnFromOutcomeOn(LearnedQueries(kind), ConfidenceLevel, MaxLearnDepth)

NextLearn == LearnOutcome

SpecLearn == Init /\ [][NextLearn]_vars

----------------------------------------------------------------------------
(* A query assessed before outcomes are reported and again after them *)

\* the caller's first assess_capability(query), which it keeps
AssessBefore ==
    /\ last.op = "init"
    /\ \E query \in LearnedQueries(kind) :
         LET a == assess_capability(query) IN
         last' = [NoLast EXCEPT !.op = "assess_capability", !.query = query,
                     !.state = a, !.raised = a.raised,
                     !.asked = query, !.before = a]
    /\ UNCHANGED <<agentVars, boundaries, interaction_history, learning_log>>

LearnBetween ==
    /\ last.op # "init"
    /\ LearnFromOutcomeFrom([NoLast EXCEPT !.asked = last.asked,
                                           !.before = last.before],
                            LearnedQueries(kind), ConfidenceLevel,
                            MaxLearnDepth)

\* assess_capability(query) again, with the query assessed before
AssessAfter ==
    /\ last.op = "learn_from_outcome"
    /\ LET a == assess_capability(last.asked) IN
         last' = [NoLast EXCEPT !.op = "assess_capability",
                     !.query = last.asked, !.state = a, !.raised = a.raised,
                     !.asked = last.asked, !.before = last.before]
    /\ UNCHANGED <<agentVars, boundaries, interaction_history, learning_log>>

NextRelearn == AssessBefore \/ LearnBetween \/ AssessAfter

SpecRelearn == Init /\ [][NextRelearn]_vars

----------------------------------------------------------------------------
(* Registrations in the agent's delegation map, and lookups *)

RegisteredDomains == {"technical", "crisis", "shipping"}

Delegates == {"support_team", "eng_team"}

\* self.delegation_map.add_delegation(domain, delegate, reason)
AddDelegation ==
    /\ \E domain \in RegisteredDomains, delegate \in Delegates :
         /\ delegation_map' =
                add_delegation(delegation_map, domain, delegate, "reason")
         /\ last' = [NoLast EXCEPT !.op = "add_delegation",
                        !.query = Query(<<>>, domain, 0),
                        !.delegate = delegate]
    /\ UNCHANGED <<kind, capabilities, boundaries, interaction_history,
                   learning_log, threads>>

\* self._suggest_delegate(query)
SuggestDelegate ==
    /\ \E domain \in RegisteredDomains :
         LET query == Query(<<>>, domain, 0) IN
         last' = [NoLast EXCEPT !.op = "_suggest_delegate", !.query = query,
                     !.delegate = suggest_delegate(query)]
    /\ UNCHANGED <<agentVars, boundaries, interaction_history,
                   learning_log>>

NextDelegation == AddDelegation \/ SuggestDelegate

SpecDelegation == Init /\ [][NextDelegation]_vars

----------------------------------------------------------------------------
(* The coordinator routing one query over a pool of constructed agents.  The
   variables hold the state of the pool member the coordinator is calling;
   every member is as its constructor left it until it is handed the query. *)

\* pools in the order of the demo and in the reverse order
Pools == { <<"care", "mh", "voice">>, <<"voice", "mh", "care">> }

RouteContents ==
    {<<"hours">>, <<"breathing">>, <<"weather">>, <<"news">>, <<"stress">>}

RouteDomains ==
    {"general_inquiries", "coping_techniques", "current_events", "mixed"}

RouteConfidences == {0, 70, 80}

RouteQueries ==
    {Query(c, d, r) : c \in RouteContents, d \in RouteDomains,
                      r \in RouteConfidences}

\* the capabilities the constructor of a pool member declares
ConstructedCapabilities(k) ==
    CASE k = "care" -> CareCapabilities
      [] k = "voice" -> VoiceCapabilities
      [] k = "mh" -> MHCapabilities

\* HumilityAwareCoordinator(agents), and the query of a scenario
InitRoute ==
    /\ \E pool \in Pools, query \in RouteQueries :
         /\ kind = pool[1]
         /\ last = [NoLast EXCEPT !.op = "input", !.pool = pool,
                       !.query = query]
    /\ capabilities = ConstructedCapabilities(kind)
    /\ boundaries = build_boundaries(capabilities)
    /\ delegation_map = InitialDelegations(kind)
    /\ interaction_history = <<>>
    /\ learning_log = <<>>
    /\ threads = NoThreads

\* the assessment is neither a deferral nor an unknown-domain outcome
is_candidate(assessment) ==
    assessment.raised = None /\ assessment.value # None

\* position in the pool of the candidate with the highest confidence, the
\* first of them in pool order; 0 if there is no candidate
route_select(assessments) ==
    LET candidates == {i \in DOMAIN assessments :
                          is_candidate(assessments[i])}
    IN  IF candidates = {} THEN 0
        ELSE CHOOSE i \in candidates :
                \A j \in candidates :
                    \/ Value(assessments[j].confidence)
                          < Value(assessments[i].confidence)
                    \/ /\ Value(assessments[j].confidence)
                            = Value(assessments[i].confidence)
                       /\ i <= j

\* route_query, one pool member: agent.assess_capability(query)
RouteAssess ==
    /\ last.op \in {"input", "route_assess"}
    /\ Len(last.assessments) < Len(last.pool)
    /\ LET agent == last.pool[Len(last.assessments) + 1] IN
         /\ kind' = agent
         /\ capabilities' = ConstructedCapabilities(agent)
         /\ boundaries' = build_boundaries(ConstructedCapabilities(agent))
         /\ delegation_map' = InitialDelegations(agent)
    /\ UNCHANGED <<interaction_history, learning_log, threads>>
    /\ \E query \in RouteQueries :
         /\ query = last.query
         /\ last' = [last EXCEPT !.op = "route_assess",
                        !.assessments = Append(@, assess_capability(query)')]

\* route_query returning the selected pool member, or none
RouteQuery ==
    /\ last.op = "route_assess"
    /\ Len(last.assessments) = Len(last.pool)
    /\ LET best == route_select(last.assessments)
           agent == IF best = 0 THEN kind ELSE last.pool[best]
       IN  /\ kind' = agent
           /\ capabilities' = ConstructedCapabilities(agent)
           /\ boundaries' = build_boundaries(ConstructedCapabilities(agent))
           /\ delegation_map' = InitialDelegations(agent)
           /\ last' = [last EXCEPT !.op = "route_query", !.index = best,
                          !.routed = IF best = 0 THEN None ELSE agent]
    /\ UNCHANGED <<interaction_history, learning_log, threads>>

\* best_agent.handle(query, context)
HandleRouted ==
    /\ last.op = "route_query"
    /\ last.routed # None
    /\ LET h == handle(last.query) IN
         /\ interaction_history' = h.history
         /\ last' = [last EXCEPT !.op = "handle",
                        !.assessment = h.assessment, !.state = h.state,
                        !.response = h.response, !.raised = h.raised,
                        !.deferred = h.deferred, !.steps = h.steps]
    /\ UNCHANGED <<agentVars, boundaries, learning_log>>

NextRoute == RouteAssess \/ RouteQuery \/ HandleRouted

SpecRoute == InitRoute /\ [][NextRoute]_vars

----------------------------------------------------------------------------
(* handle and learn_from_outcome called on one agent from several threads.
   A step is one statement that writes the agent's state: list.append and
   the set insertion of update_boundary each happen at once. *)

\* the domain of the calls: one of the agent's boundaries has it
ThreadDomain(k) ==
    CASE k = "care" -> "billing_basic"
      [] k = "voice" -> "current_events"
      [] k = "mh" -> "general_wellness"
      [] OTHER -> "support"

ThreadQueries(k) == {Query(c, ThreadDomain(k), 60) : c \in QueryContents(k)}

\* predicted confidence and actual outcome of the reported outcomes
ThreadOutcomes == { <<"CONFIDENT", FALSE>>, <<"LOW", TRUE>> }

\* handle(query, context) up to its call of _log_interaction
ThreadHandle(t) ==
    /\ threads[t].pc = "idle"
    /\ \E query \in ThreadQueries(kind) :
         LET h == handle(query) IN
         threads' = [threads EXCEPT ![t] =
            [NoCall EXCEPT !.op = "handle",
                !.pc = IF h.raised # None THEN "raised" ELSE "log",
                !.query = query, !.state = h.state, !.response = h.response,
                !.deferred = h.deferred]]
    /\ UNCHANGED <<kind, capabilities, delegation_map, boundaries,
                   interaction_history, learning_log, last>>

\* as _log_interaction, the append lost when another call is in flight
ThreadLogInteractionRacing(t) ==
    /\ threads[t].pc = "log"
    /\ interaction_history' =
          IF \E u \in Threads \ {t} :
                threads[u].pc \notin {"idle", "done", "raised"}
          THEN interaction_history
          ELSE log_interaction(interaction_history, threads[t].query,
                               threads[t].state, threads[t].response,
                               threads[t].deferred)
    /\ threads' = [threads EXCEPT ![t].pc = "done"]
    /\ UNCHANGED <<kind, capabilities, delegation_map, boundaries,
                   learning_log, last>>

\* _log_interaction: self.interaction_history.append(...), and the return
ThreadLogInteraction(t) ==
    /\ threads[t].pc = "log"
    /\ interaction_history' =
          log_interaction(interaction_history, threads[t].query,
                          threads[t].state, threads[t].response,
                          threads[t].deferred)
    /\ threads' = [threads EXCEPT ![t].pc = "done"]
    /\ UNCHANGED <<kind, capabilities, delegation_map, boundaries,
                   learning_log, last>>

\* learn_from_outcome: self.learning_log.append(...)
ThreadLearn(t) ==
    /\ threads[t].pc = "idle"
    /\ \E query \in ThreadQueries(kind), predicted \in ThreadOutcomes :
         LET predicted_state ==
                 EpistemicState("answer", predicted[1], None, 0, NoRef, None)
         IN  /\ learning_log' =
                   Append(learning_log,
                          learning_entry(query, predicted_state,
                                         predicted[2], None))
             /\ threads' = [threads EXCEPT ![t] =
                    [NoCall EXCEPT !.op = "learn_from_outcome",
                        !.pc = "limits", !.query = query,
                        !.state = predicted_state, !.outcome = predicted[2],
                        !.i = 1]]
    /\ UNCHANGED <<kind, capabilities, delegation_map, boundaries,
                   interaction_history, last>>

\* learn_from_outcome: one turn of the loop that records a limit
ThreadLearnLimit(t) ==
    /\ threads[t].pc = "limits"
    /\ LET call == threads[t] IN
       IF ~call.outcome /\ Value(call.state.confidence) > 60
          /\ call.i <= Len(boundaries)
       THEN /\ boundaries' =
                 [boundaries EXCEPT ![call.i] =
                     IF @.domain = call.query.domain
                     THEN update_limit(@, call.query.content) ELSE @]
            /\ threads' = [threads EXCEPT ![t].i = @ + 1]
       ELSE /\ boundaries' = boundaries
            /\ threads' = [threads EXCEPT ![t].pc = "capabilities",
                                          ![t].i = 1]
    /\ UNCHANGED <<kind, capabilities, delegation_map, interaction_history,
                   learning_log, last>>

\* learn_from_outcome: one turn of the loop that records a capability
ThreadLearnCapability(t) ==
    /\ threads[t].pc = "capabilities"
    /\ LET call == threads[t] IN
       IF call.outcome /\ Value(call.state.confidence) < 50
          /\ call.i <= Len(boundaries)
       THEN /\ boundaries' =
                 [boundaries EXCEPT ![call.i] =
                     IF @.domain = call.query.domain
                     THEN update_capability(@, call.query.content) ELSE @]
            /\ threads' = [threads EXCEPT ![t].i = @ + 1]
       ELSE /\ boundaries' = boundaries
            /\ threads' = [threads EXCEPT ![t].pc = "done"]
    /\ UNCHANGED <<kind, capabilities, delegation_map, interaction_history,
                   learning_log, last>>

NextThreads ==
    \E t \in Threads :
        \/ ThreadHandle(t)
        \/ ThreadLogInteraction(t)
        \/ ThreadLearn(t)
        \/ ThreadLearnLimit(t)
        \/ ThreadLearnCapability(t)

SpecThreads == Init /\ [][NextThreads]_vars

----------------------------------------------------------------------------
(* The pure functions, applied to drawn capabilities and texts *)

FnAlphabet == {"hours", "HOURS", "refund", "check", "balance"}

Texts == StringsUpTo(FnAlphabet, MaxLen)

TestCapabilities ==
    { AgentCapability("general_inquiries", << <<"hours">> >>,
                      "CONFIDENT", <<80, 95>>),
      AgentCapability("billing_basic", << <<"check", "balance">> >>,
                      "MODERATE", <<50, 70>>),
      AgentCapability("refunds", << <<"REFUND", "hours">>, <<"zzz">> >>,
                      "LOW", <<20, 50>>) }

TestCapabilityLists ==
    {<<>>} \cup {<<a>> : a \in TestCapabilities}
           \cup {<<a, b>> : a \in TestCapabilities, b \in TestCapabilities}

FnDomains == {"general_inquiries", "billing_basic", "other"}

\* the drawn inputs: a capability list, a text and a query domain
InitFn ==
    /\ kind = "care"
    /\ capabilities = CareCapabilities
    /\ boundaries = build_boundaries(capabilities)
    /\ delegation_map = CareDelegations
    /\ interaction_history = <<>>
    /\ learning_log = <<>>
    /\ threads = NoThreads
    /\ \E caps \in TestCapabilityLists, text \in Texts, d \in FnDomains :
         last = [NoLast EXCEPT !.op = "input", !.caps = caps,
                    !.query = Query(text, d, 0)]

agentState == <<agentVars, boundaries, interaction_history, learning_log>>

\* caps[1].can_handle(text)
CanHandle ==
    /\ last.op = "input"
    /\ last.caps # <<>>
    /\ last' = [last EXCEPT !.op = "can_handle", !.capability = last.caps[1],
                   !.result = can_handle(last.caps[1], last.query.content)]
    /\ UNCHANGED agentState

\* CustomerCareAgent._assess_confidence(query, caps[1])
AssessConfidence ==
    /\ last.op = "input"
    /\ last.caps # <<>>
    /\ last' = [last EXCEPT !.op = "_assess_confidence",
                   !.capability = last.caps[1],
                   !.level = care_assess_confidence(last.query, last.caps[1])]
    /\ UNCHANGED agentState

\* the capability scan of assess_capability over caps
FindCapability ==
    /\ last.op = "input"
    /\ last' = [last EXCEPT !.op = "find_capability",
                   !.index = find_capability(last.caps, last.query, 1)]
    /\ UNCHANGED agentState

NextFn == CanHandle \/ AssessConfidence \/ FindCapability

SpecFn == InitFn /\ [][NextFn]_vars

----------------------------------------------------------------------------
(* Properties *)

\* the capability matches the query: same domain, or can_handle(content)
Matches(cap, query) ==
    cap.domain = query.domain \/ can_handle(cap, query.content)

\* position of the first capability of caps that matches, 0 if none does
FirstMatching(caps, query) ==
    IF \E i \in DOMAIN caps : Matches(caps[i], query)
    THEN CHOOSE i \in DOMAIN caps :
            /\ Matches(caps[i], query)
            /\ \A j \in 1..(i - 1) : ~Matches(caps[j], query)
    ELSE 0

\* position of the first occurrence of a call in a sequence of calls, 0 if none
RECURSIVE Position(_, _, _)
Position(step, steps, i) ==
    IF i > Len(steps) THEN 0
    ELSE IF steps[i] = step THEN i
    ELSE Position(step, steps, i + 1)

\* C1: on the agent with a Safety Override (the mental-health agent), every
\* handle call whose query content triggers the crisis detector returns a
\* response with confidence CERTAIN (the maximum score) and
\* should_escalate = true, whatever required_confidence and query.domain are.
C1_CrisisAlwaysEscalates ==
    (last.op = "handle" /\ kind = "mh" /\ check_for_crisis(last.query.content))
        => /\ last.raised = None
           /\ last.response.confidence = MaxValue
           /\ last.response.should_escalate

\* C2: in every handle call on the agent with a Safety Override the crisis
\* check is executed, and executed before the capability assessment and the
\* defer-or-answer branching.
C2_SafetyCheckFirst ==
    (last.op = "handle" /\ kind = "mh")
        => /\ Position("check_for_crisis", last.steps, 1) # 0
           /\ Position("check_for_crisis", last.steps, 1)
                < Position("assess_capability", last.steps, 1)

\* C3: for a query that matches a capability, assess_capability returns a
\* state with no value, and handle takes the deferral branch (logging
\* deferred = TRUE, not calling the answer generator), if and only if the
\* score of the assessed confidence is strictly below required_confidence.
C3_DeferIffBelow ==
    LET i == FirstMatching(capabilities, last.query)
        score == Value(assess_confidence(last.query, capabilities[i]))
        below == score < last.query.required_confidence
    IN  /\ (last.op = "assess_capability" /\ i # 0)
              => ((last.state.value = None) <=> below)
        /\ (last.op = "handle" /\ i # 0)
              => /\ (last.assessment.value = None) <=> below
                 /\ last.deferred <=> below
                 /\ below <=> Position("_generate_answer", last.steps, 1) = 0
                 /\ below =>
                      /\ Len(interaction_history) > 0
                      /\ interaction_history[Len(interaction_history)].deferred

\* C3 witness: a handle call whose assessed score equals required_confidence
\* has answered
C3_Witness ==
    LET i == FirstMatching(capabilities, last.query) IN
    /\ last.op = "handle"
    /\ i # 0
    /\ Value(assess_confidence(last.query, capabilities[i]))
         = last.query.required_confidence
    /\ last.query.required_confidence > 0
    /\ ~last.deferred
    /\ last.raised = None
    /\ ~interaction_history[Len(interaction_history)].deferred

\* C4: no handle call on a constructed agent fails at query time because the
\* answer generator is missing (such an agent is rejected at construction).
C4_NoMissingGeneratorAtQueryTime ==
    ~(/\ capabilities # <<>>
      /\ last.op = "handle"
      /\ last.raised = "NotImplementedError")

\* C5: assess_capability never raises; when no capability matches the query
\* the state has confidence UNKNOWN, an uncertainty_reason, and the suggested
\* delegate registered for query.domain (none when unregistered).
C5_UnknownIsAState ==
    last.op = "assess_capability"
        => /\ last.raised = None
           /\ last.state.confidence \in ConfidenceLevel
           /\ (\A i \in DOMAIN capabilities :
                   ~Matches(capabilities[i], last.query))
                => /\ last.state.confidence = "UNKNOWN"
                   /\ last.state.uncertainty_reason # None
                   /\ IF last.query.domain \in DOMAIN delegation_map
                      THEN last.state.suggested_delegate
                             = delegation_map[last.query.domain].delegate
                      ELSE last.state.suggested_delegate = None

\* C5 witness: an unmatched query whose domain has a registered delegate
C5_Witness ==
    /\ last.op = "assess_capability"
    /\ \A i \in DOMAIN capabilities : ~Matches(capabilities[i], last.query)
    /\ last.query.domain \in DOMAIN delegation_map
    /\ last.state.suggested_delegate # None

\* the keys of the knowledge base
KnownFactKeys == {knowledge_base[k].key : k \in DOMAIN knowledge_base}

HasKnownFact(text) == \E key \in KnownFactKeys : Contains(key, Lower(text))

\* a known-fact key belongs to the capability's domain when one of the
\* capability's topics mentions it
HasKnownFactOf(cap, text) ==
    \E key \in KnownFactKeys :
        /\ Contains(key, Lower(text))
        /\ \E t \in SetOf(cap.topics) : Contains(key, Lower(t))

HasComplexity(text) ==
    \E ind \in SetOf(complexity_indicators) : Contains(ind, Lower(text))

\* C6 as stated: CERTAIN if the content contains a known-fact key for the
\* capability's domain; otherwise LOW if can_handle and a complexity
\* indicator; otherwise MODERATE if can_handle; otherwise UNKNOWN.
C6_DomainScopedKnownFact ==
    last.op = "_assess_confidence"
        => LET cap == last.capability
               text == last.query.content
           IN  last.level =
                 IF HasKnownFactOf(cap, text) THEN "CERTAIN"
                 ELSE IF can_handle(cap, text) /\ HasComplexity(text) THEN "LOW"
                 ELSE IF can_handle(cap, text) THEN "MODERATE"
                 ELSE "UNKNOWN"

\* C6 amended: CERTAIN if and only if the lower-cased content contains any
\* key of the agent's knowledge base, whatever the capability's domain;
\* otherwise LOW if can_handle and a complexity indicator; otherwise
\* MODERATE if can_handle; otherwise UNKNOWN.
C6_AnyKnownFact ==
    last.op = "_assess_confidence"
        => LET cap == last.capability
               text == last.query.content
           IN  /\ (last.level = "CERTAIN") <=> HasKnownFact(text)
               /\ (last.level = "LOW")
                    <=> /\ ~HasKnownFact(text)
                        /\ can_handle(cap, text) /\ HasComplexity(text)
               /\ (last.level = "MODERATE")
                    <=> /\ ~HasKnownFact(text)
                        /\ can_handle(cap, text) /\ ~HasComplexity(text)
               /\ (last.level = "UNKNOWN")
                    <=> (~HasKnownFact(text) /\ ~can_handle(cap, text))

\* C6 witness: a text the capability can handle that holds both a key of the
\* knowledge base and a complexity indicator is assessed CERTAIN
C6_Witness ==
    /\ last.op = "_assess_confidence"
    /\ HasKnownFact(last.query.content)
    /\ HasComplexity(last.query.content)
    /\ can_handle(last.capability, last.query.content)
    /\ last.level = "CERTAIN"

\* C7: the capability scan selects the first capability, in declaration
\* order, whose domain equals query.domain or that can_handle the content,
\* never a later one, and selects none exactly when none satisfies either.
C7_FirstMatchWins ==
    last.op = "find_capability"
        => /\ (last.index = 0)
                <=> \A i \in DOMAIN last.caps : ~Matches(last.caps[i], last.query)
           /\ last.index # 0
                => /\ last.index \in DOMAIN last.caps
                   /\ Matches(last.caps[last.index], last.query)
                   /\ \A j \in 1..(last.index - 1) :
                         ~Matches(last.caps[j], last.query)

\* C7 witness: two different capabilities both match and the first is selected
C7_Witness ==
    /\ last.op = "find_capability"
    /\ Len(last.caps) = 2
    /\ last.caps[1] # last.caps[2]
    /\ Matches(last.caps[1], last.query)
    /\ Matches(last.caps[2], last.query)
    /\ last.index = 1

UpperTopics(cap) ==
    [cap EXCEPT !.topics = [i \in DOMAIN cap.topics |-> Upper(cap.topics[i])]]

LowerTopics(cap) ==
    [cap EXCEPT !.topics = [i \in DOMAIN cap.topics |-> Lower(cap.topics[i])]]

\* C8: can_handle(text) does not depend on the letter case of the text or of
\* the topics; a text that contains one of the topics is handleable; a text
\* in no substring relation with any topic is not.
C8_CaseInsensitiveSubstring ==
    last.op = "can_handle"
        => LET cap == last.capability
               text == last.query.content
           IN  /\ last.result = can_handle(cap, Upper(text))
               /\ last.result = can_handle(cap, Lower(text))
               /\ last.result = can_handle(UpperTopics(cap), text)
               /\ last.result = can_handle(LowerTopics(cap), text)
               /\ (\E t \in SetOf(cap.topics) : Contains(Lower(t), Lower(text)))
                    => last.result
               /\ (\A t \in SetOf(cap.topics) :
                      /\ ~Contains(Lower(t), Lower(text))
                      /\ ~Contains(Lower(text), Lower(t)))
                    => ~last.result

\* C9: whenever handle takes the deferral branch, the delegate handed on is
\* the one registered in the agent's DelegationMap for query.domain (none if
\* unregistered), and the deferral state carries the agent's delegation_map
\* and an uncertainty_reason.
C9_DeferralCarriesDelegation ==
    (last.op = "handle" /\ last.deferred)
        => /\ last.response.delegate_to
                = get_delegate(delegation_map, last.query.domain)
           /\ last.state.delegation_map = Ref(delegation_map)
           /\ last.state.uncertainty_reason # None

\* C10: every handle call that returns appends exactly one entry to
\* interaction_history (content, domain, numeric confidence, deferred exactly
\* when the deferral branch was taken); every learn_from_outcome call appends
\* exactly one entry to learning_log; assess_capability and get_stats append
\* nothing; no call removes, reorders or alters an earlier entry.
C10_LogsAppendOnly ==
    [][ /\ (last'.op = "handle" /\ last'.raised = None)
             => /\ Len(interaction_history') = Len(interaction_history) + 1
                /\ LET e == interaction_history'[Len(interaction_history')] IN
                   /\ e.query = last'.query.content
                   /\ e.domain = last'.query.domain
                   /\ e.confidence = Value(last'.state.confidence)
                   /\ e.deferred
                        <=> Position("_generate_answer", last'.steps, 1) = 0
                /\ learning_log' = learning_log
        /\ last'.op = "learn_from_outcome"
             => /\ Len(learning_log') = Len(learning_log) + 1
                /\ learning_log'[Len(learning_log')].query = last'.query.content
                /\ interaction_history' = interaction_history
        /\ last'.op \in {"assess_capability", "get_stats"}
             => /\ interaction_history' = interaction_history
                /\ learning_log' = learning_log
        /\ Len(interaction_history') >= Len(interaction_history)
        /\ SubSeq(interaction_history', 1, Len(interaction_history))
             = interaction_history
        /\ Len(learning_log') >= Len(learning_log)
        /\ SubSeq(learning_log', 1, Len(learning_log)) = learning_log
      ]_vars

\* C10 witness: two interactions, one deferred and one answered, and a
\* learning event are on the logs
C10_Witness ==
    /\ Len(interaction_history) = 2
    /\ interaction_history[1].deferred
    /\ ~interaction_history[2].deferred
    /\ interaction_history[1] # interaction_history[2]
    /\ Len(learning_log) = 1
    /\ last.op = "get_stats"

\* the known_limits of every boundary, in boundary order
KnownLimits(bs) == [i \in DOMAIN bs |-> bs[i].known_limits]

\* the known_capabilities of every boundary, in boundary order
KnownCapabilities(bs) == [i \in DOMAIN bs |-> bs[i].known_capabilities]

\* C11: learn_from_outcome adds query.content to the known_limits of the
\* boundaries whose domain is query.domain exactly when actual_outcome is
\* false and the predicted score is strictly above 0.6, and to their
\* known_capabilities exactly when actual_outcome is true and the predicted
\* score is strictly below 0.5; in every other case (a score at a threshold
\* or between them, a domain no boundary has) every boundary set is unchanged.
C11_LearnThresholds ==
    [][ last'.op = "learn_from_outcome"
          => LET query == last'.query
                 score == Value(last'.state.confidence)
                 limit == ~last'.outcome /\ score > 60
                 capability == last'.outcome /\ score < 50
             IN  /\ DOMAIN boundaries' = DOMAIN boundaries
                 /\ \A i \in DOMAIN boundaries :
                      /\ boundaries'[i].known_limits =
                           IF limit /\ boundaries[i].domain = query.domain
                           THEN boundaries[i].known_limits \cup {query.content}
                           ELSE boundaries[i].known_limits
                      /\ boundaries'[i].known_capabilities =
                           IF capability /\ boundaries[i].domain = query.domain
                           THEN boundaries[i].known_capabilities
                                   \cup {query.content}
                           ELSE boundaries[i].known_capabilities
      ]_vars

\* C11 witness: an overconfident failure has put its content among the limits
\* of the boundary of its domain and of no other, after an outcome at the
\* threshold score 0.6 that left the limits empty
C11_Witness ==
    /\ last.op = "learn_from_outcome"
    /\ ~last.outcome
    /\ Value(last.state.confidence) > 60
    /\ Len(learning_log) = 2
    /\ learning_log[1].predicted_confidence = 60
    /\ ~learning_log[1].actual_outcome
    /\ learning_log[1].query # last.query.content
    /\ \E i \in DOMAIN boundaries :
         /\ boundaries[i].domain = last.query.domain
         /\ boundaries[i].known_limits = {last.query.content}
    /\ \E i \in DOMAIN boundaries :
         /\ boundaries[i].domain # last.query.domain
         /\ boundaries[i].known_limits = {}

\* C12: reporting the same outcome again (same query, predicted score 0.8,
\* actual_outcome false) leaves the known_limits of every boundary as they
\* were after the first report.
C12_RepeatedLimitIdempotent ==
    [][ ( /\ last.op = "learn_from_outcome"
          /\ last' = last
          /\ last.state.confidence = "CONFIDENT"
          /\ ~last.outcome )
          => KnownLimits(boundaries') = KnownLimits(boundaries)
      ]_vars

\* C12 witness: the same overconfident failure has been reported twice and
\* the content is among the limits of the boundary of its domain
C12_Witness ==
    /\ last.op = "learn_from_outcome"
    /\ last.state.confidence = "CONFIDENT"
    /\ ~last.outcome
    /\ Len(learning_log) = 2
    /\ learning_log[1] = learning_log[2]
    /\ \E i \in DOMAIN boundaries :
         /\ boundaries[i].domain = last.query.domain
         /\ last.query.content \in boundaries[i].known_limits

C14_AssessIsPureRead ==
    /\ [](last.op = "assess_capability"
            => LET again == assess_capability(last.query) IN
               /\ again.confidence = last.state.confidence
               /\ again.value = last.state.value
               /\ again.uncertainty_reason = last.state.uncertainty_reason
               /\ again.raised = last.state.raised)
    /\ [][ last'.op = "assess_capability"
             => /\ interaction_history' = interaction_history
                /\ learning_log' = learning_log
                /\ boundaries' = boundaries
                /\ capabilities' = capabilities
                /\ delegation_map' = delegation_map
                /\ kind' = kind
         ]_vars

\* C14 witness: an assessment that defers, made by an agent that has logged
\* two interactions and one learning event
C14_Witness ==
    /\ last.op = "assess_capability"
    /\ last.index # 0
    /\ last.state.value = None
    /\ last.state.uncertainty_reason # None
    /\ Len(interaction_history) = 2
    /\ Len(learning_log) = 1

\* the add_delegation calls of each constructor, in call order
Registrations(k) ==
    CASE k = "care" -> << <<"billing_complex", "billing_specialist">>,
                          <<"technical", "technical_support">>,
                          <<"refunds", "billing_specialist">> >>
      [] k = "voice" -> << <<"current_events", "web_search">>,
                           <<"specialized_knowledge", "expert_system">> >>
      [] k = "mh" -> << <<"diagnosis", "licensed_therapist">>,
                        <<"medication", "psychiatrist">>,
                        <<"crisis", "crisis_hotline">>,
                        <<"severe_symptoms", "licensed_therapist">> >>
      [] OTHER -> <<>>

\* the delegate of the last call of regs[1..i] that registers the domain
RECURSIVE LastRegistered(_, _, _)
LastRegistered(regs, domain, i) ==
    IF i = 0 THEN None
    ELSE IF regs[i][1] = domain THEN regs[i][2]
    ELSE LastRegistered(regs, domain, i - 1)

\* C15: get_delegate(d) returns the delegate of the most recent
\* add_delegation(d, ...) call, and none for a domain never registered: a
\* constructed agent answers with the last registration of its constructor,
\* each add_delegation(d, x, ...) makes the answer for d be x, and the answer
\* for a domain changes at no other step.
C15_LastWriteWins ==
    /\ \A d \in RegisteredDomains \cup {"billing_complex", "refunds"} :
         suggest_delegate(Query(<<>>, d, 0))
            = LastRegistered(Registrations(kind), d, Len(Registrations(kind)))
    /\ [][ \A d \in RegisteredDomains \cup {"billing_complex", "refunds"} :
             LET query == Query(<<>>, d, 0) IN
             /\ (last'.op = "add_delegation" /\ last'.query.domain = d)
                  => suggest_delegate(query)' = last'.delegate
             /\ ~(last'.op = "add_delegation" /\ last'.query.domain = d)
                  => suggest_delegate(query)' = suggest_delegate(query)
             /\ (last'.op = "_suggest_delegate" /\ last'.query.domain = d)
                  => last'.delegate = suggest_delegate(query)
         ]_vars

\* C15 witness: a lookup returns the delegate of a second registration of a
\* domain the constructor had registered with another delegate, while a domain
\* that was never registered has none
C15_Witness ==
    /\ last.op = "_suggest_delegate"
    /\ last.query.domain = "technical"
    /\ kind = "care"
    /\ last.delegate = "eng_team"
    /\ delegation_map["technical"].delegate = "eng_team"
    /\ suggest_delegate(Query(<<>>, "shipping", 0)) = None
    /\ suggest_delegate(Query(<<>>, "refunds", 0)) = "billing_specialist"

\* the pool member's pipeline would defer on the assessment
WouldDefer(assessment, query) ==
    Value(assessment.confidence) < query.required_confidence

\* the assessment is the unknown-domain outcome
UnknownDomain(assessment) ==
    assessment.uncertainty_reason = "outside my expertise areas"

\* positions of the pool whose assessment neither defers nor is unknown-domain
Candidates ==
    {i \in DOMAIN last.assessments :
        /\ ~WouldDefer(last.assessments[i], last.query)
        /\ ~UnknownDomain(last.assessments[i])}

\* C16: route_query never returns an agent whose own assessment of the query
\* is a deferral or an unknown-domain outcome; it returns the candidate of
\* highest numeric confidence, the first in pool order on a tie, and none
\* exactly when there is no candidate; the handle call of the returned agent
\* on the routed query does not take the deferral branch.
C16_RouteToBestCandidate ==
    /\ last.op \in {"route_query", "handle"}
         => /\ Len(last.assessments) = Len(last.pool)
            /\ (last.routed = None) <=> (Candidates = {})
            /\ last.routed # None
                 => /\ last.index \in Candidates
                    /\ last.routed = last.pool[last.index]
                    /\ kind = last.routed
                    /\ \A j \in Candidates :
                         Value(last.assessments[j].confidence)
                            <= Value(last.assessments[last.index].confidence)
                    /\ \A j \in Candidates :
                         j < last.index
                           => Value(last.assessments[j].confidence)
                                < Value(last.assessments[last.index].confidence)
    /\ last.op = "handle"
         => /\ ~last.deferred
            /\ Position("_generate_answer", last.steps, 1) # 0

\* C16 witness: the first pool member does not know the domain, the other two
\* assess the query with the same confidence, the second member of the pool
\* is routed to and has handled the query without deferring
C16_Witness ==
    /\ last.op = "handle"
    /\ last.raised = None
    /\ Cardinality(Candidates) = 2
    /\ last.index = 2
    /\ \A j \in Candidates :
         Value(last.assessments[j].confidence)
            = Value(last.assessments[2].confidence)
    /\ UnknownDomain(last.assessments[1])
    /\ last.query.required_confidence > 0
    /\ Len(interaction_history) = 1
    /\ ~interaction_history[1].deferred

\* C17: the constructor builds exactly one boundary per declared capability,
\* in declaration order, with the capability's domain and proficiency, its
\* topics as known_capabilities and no known_limits; afterwards only
\* learn_from_outcome changes a boundary: handle, assess_capability and
\* get_stats leave every boundary and their number as they were.
C17_BoundariesFromCapabilities ==
    /\ /\ Len(boundaries) = Len(capabilities)
       /\ \A i \in DOMAIN capabilities :
            /\ boundaries[i].domain = capabilities[i].domain
            /\ boundaries[i].proficiency = capabilities[i].proficiency_level
            /\ boundaries[i].known_capabilities
                 = {capabilities[i].topics[t] : t \in DOMAIN capabilities[i].topics}
            /\ boundaries[i].known_limits = {}
    /\ [][ /\ last'.op \in {"handle", "assess_capability", "get_stats"}
                => boundaries' = boundaries
           /\ Len(boundaries') = Len(boundaries)
           /\ boundaries' # boundaries => last'.op = "learn_from_outcome"
         ]_vars

\* C17 witness: an interaction is handled by an agent of three capabilities
\* one of whose boundaries has learned a limit
C17_Witness ==
    /\ last.op = "handle"
    /\ last.raised = None
    /\ Len(boundaries) = 3
    /\ Len(learning_log) = 1
    /\ \E i \in DOMAIN boundaries : boundaries[i].known_limits # {}
    /\ \E i \in DOMAIN boundaries : boundaries[i].known_limits = {}

\* the invariant of an EpistemicState: no value, then an uncertainty_reason;
\* a value with no uncertainty_reason (a firm answer), then a source
WellFormed(state) ==
    /\ state.value = None => state.uncertainty_reason # None
    /\ (state.value # None /\ state.uncertainty_reason = None)
          => state.source # None

\* C18: every EpistemicState assess_capability and _generate_answer produce is
\* well formed: an absent (or do-not-know) value comes with an
\* uncertainty_reason, and a value returned with no uncertainty_reason comes
\* with a source.
C18_StatesWellFormed ==
    /\ (last.op = "assess_capability" /\ last.raised = None)
          => WellFormed(last.state)
    /\ (last.op = "handle" /\ last.raised = None)
          => WellFormed(last.assessment) /\ WellFormed(last.state)

\* the threads whose handle call has returned
HandleReturned == {t \in Threads : threads[t].op = "handle"
                                    /\ threads[t].pc = "done"}

\* the threads that have called learn_from_outcome
LearnCalled == {t \in Threads : threads[t].op = "learn_from_outcome"}

\* the interaction_history entry of the handle call of thread t
HandleEntry(t) ==
    log_entry(threads[t].query, threads[t].state, threads[t].response,
              threads[t].deferred)

\* the learning_log entry of the learn_from_outcome call of thread t
LearnEntry(t) ==
    learning_entry(threads[t].query, threads[t].state, threads[t].outcome,
                   None)

\* the contents the calls have so far inserted as limits of boundary i
LimitsInserted(i) ==
    {threads[t].query.content : t \in
        {u \in LearnCalled :
            /\ ~threads[u].outcome
            /\ Value(threads[u].state.confidence) > 60
            /\ boundaries[i].domain = threads[u].query.domain
            /\ (threads[u].pc = "limits" => i < threads[u].i)}}

\* the contents the calls have so far inserted as capabilities of boundary i
CapabilitiesInserted(i) ==
    {threads[t].query.content : t \in
        {u \in LearnCalled :
            /\ threads[u].outcome
            /\ Value(threads[u].state.confidence) < 50
            /\ boundaries[i].domain = threads[u].query.domain
            /\ \/ threads[u].pc = "done"
               \/ threads[u].pc = "capabilities" /\ i < threads[u].i}}

\* C19: however handle and learn_from_outcome calls of several threads on
\* one agent interleave, interaction_history holds exactly one entry per
\* handle call that has returned, learning_log exactly one entry per
\* learn_from_outcome call, and every boundary set holds what it was built
\* with and every insertion a call has made (no update is lost).
C19_InterleavedCallsSerialized ==
    /\ Len(interaction_history) = Cardinality(HandleReturned)
    /\ \A t \in HandleReturned :
         Cardinality({n \in DOMAIN interaction_history :
                        interaction_history[n] = HandleEntry(t)})
            = Cardinality({u \in HandleReturned :
                             HandleEntry(u) = HandleEntry(t)})
    /\ Len(learning_log) = Cardinality(LearnCalled)
    /\ \A t \in LearnCalled :
         Cardinality({n \in DOMAIN learning_log :
                        learning_log[n] = LearnEntry(t)})
            = Cardinality({u \in LearnCalled : LearnEntry(u) = LearnEntry(t)})
    /\ Len(boundaries) = Len(capabilities)
    /\ \A i \in DOMAIN boundaries :
         /\ boundaries[i].domain = capabilities[i].domain
         /\ boundaries[i].known_limits = LimitsInserted(i)
         /\ boundaries[i].known_capabilities
              = SetOf(capabilities[i].topics) \cup CapabilitiesInserted(i)

\* C19 witness: a handle call and a learn_from_outcome call of two threads
\* have both returned; the entry of the one, the learning entry and the limit
\* of the other are there
C19_Witness ==
    /\ \A t \in Threads : threads[t].pc = "done"
    /\ threads[1].op = "handle"
    /\ threads[2].op = "learn_from_outcome"
    /\ Len(interaction_history) = 1
    /\ Len(learning_log) = 1
    /\ \E i \in DOMAIN boundaries :
         threads[2].query.content \in boundaries[i].known_limits

\* C20: an agent that does not override _assess_confidence (BaseAgent,
\* VoiceAIAssistant, MentalHealthSupportAgent) assesses a matched query with
\* exactly the proficiency_level of the matched capability, whatever the
\* content: it defers every query routed to a capability whose proficiency
\* score is below required_confidence and none routed to one at or above.
C20_ProficiencyDecidesDeferral ==
    ( /\ last.op \in {"assess_capability", "handle"}
      /\ kind # "care"
      /\ FirstMatching(capabilities, last.query) # 0 )
        => LET capability ==
                   capabilities[FirstMatching(capabilities, last.query)]
               assessment == IF last.op = "handle" THEN last.assessment
                             ELSE last.state
               below == Value(capability.proficiency_level)
                           < last.query.required_confidence
           IN  /\ assessment.confidence = capability.proficiency_level
               /\ (assessment.value = None) <=> below
               /\ last.op = "handle" => (last.deferred <=> below)

\* C20 witness: a query whose content is no topic of the capability its
\* domain routes it to is deferred, the capability's proficiency being below
\* the required confidence
C20_Witness ==
    /\ last.op = "handle"
    /\ kind = "voice"
    /\ FirstMatching(capabilities, last.query) # 0
    /\ LET capability ==
               capabilities[FirstMatching(capabilities, last.query)]
       IN  /\ ~can_handle(capability, last.query.content)
           /\ Value(capability.proficiency_level) > 0
           /\ Value(capability.proficiency_level)
                < last.query.required_confidence
           /\ last.assessment.confidence = capability.proficiency_level
    /\ last.deferred

====
